---- MODULE Spec2Model ----
(***************************************************************************)
(* Model of server.js: the quiz submission / ranking / leaderboard server. *)
(*                                                                         *)
(* The state is the quiz_results table of the in-memory SQLite database,   *)
(* the submissions whose database statements are still outstanding, the    *)
(* leaderboard queries of updateLeaderboard that are outstanding, the      *)
(* connected sockets, and the output of the last step: the socket.io       *)
(* events it emitted, the errors it logged and the HTTP response it sent.  *)
(* Every database statement (db.run / db.get / db.all) completes in a step *)
(* of its own: the handler that issued it returns to the event loop, and   *)
(* statements of different requests complete in any order.  The database   *)
(* runs in its default, parallel mode: the callbacks of two statements may *)
(* run in the other order than the statements did, so a leaderboard query  *)
(* of updateLeaderboard reads the table in one step and its callback emits *)
(* the rows in a later one.  A statement of a submission runs and calls    *)
(* back in one step.                                                       *)
(***************************************************************************)
EXTENDS Integers, Sequences, FiniteSets, TLC

VARIABLES
    store,        \* quiz_results: the rows, in insertion order
    clock,        \* the value CURRENT_TIMESTAMP yields (whole seconds)
    reqs,         \* submissions that passed validation, by arrival
    lbPending,    \* leaderboard queries issued by updateLeaderboard, not yet done
    sockets,      \* the connected sockets, each with what its client received
    connections,  \* the number of connections made so far
    emitted,      \* the socket.io events emitted by the last step, in order
    logged,       \* the errors written to the console by the last step
    resp          \* the HTTP response sent by the last step (with its request)

vars == <<store, clock, reqs, lbPending, sockets, connections, emitted, logged, resp>>

----------------------------------------------------------------------------
(* Bounds of the model *)

MaxRequests == 2      \* submissions admitted under Spec (concurrent clients)
MaxSerial == 3        \* submissions admitted under SpecSerial (one at a time)
MaxLive == 3          \* submissions admitted plus connections under SpecLive
MaxClock == 1         \* seconds the clock advances
MaxLimit == 2         \* largest ?limit= value requested

(* Constants of the program *)

MaxNameLen == 20      \* playerName.length > 20
DefaultLimit == 50    \* parseInt(req.query.limit) || 50
BroadcastLimit == 20  \* LIMIT 20 in updateLeaderboard

----------------------------------------------------------------------------
(* JavaScript values of a request body.  A number is v, or v + 1/2 when   *)
(* half is set, so that numbers that are not integers exist.              *)

Undefined == [t |-> "undefined"]
Null == [t |-> "null"]
Num(n) == [t |-> "number", v |-> n, half |-> FALSE]
NumHalf(n) == [t |-> "number", v |-> n, half |-> TRUE]
Str(s) == [t |-> "string", s |-> s]

TypeOf(x) == IF x.t = "null" THEN "object" ELSE x.t

\* !x
Falsy(x) ==
    \/ x.t \in {"undefined", "null"}
    \/ x.t = "string" /\ x.s = ""
    \/ x.t = "number" /\ x.v = 0 /\ ~x.half

\* Numeric order of two numbers (twice the value, to stay in the integers).
NumKey(x) == 2 * x.v + (IF x.half THEN 1 ELSE 0)

----------------------------------------------------------------------------
(* Request bodies *)

Name20 == "ABCDEFGHIJKLMNOPQRST"
Name21 == "ABCDEFGHIJKLMNOPQRSTU"

BaseBody ==
    [playerName |-> Str("Ann"), score |-> Num(10), correctAnswers |-> Num(5),
     totalQuestions |-> Num(10), timeTaken |-> Num(60), answers |-> Str("[1,2]")]

\* Bodies that differ from the base body in the validated fields.
NameBodies ==
    {[BaseBody EXCEPT !.playerName = n] : n \in {Undefined, Str(""), Str(Name21)}}
    \cup {[BaseBody EXCEPT !.playerName = Str(Name20), !.score = Num(20)]}

ScoreBodies ==
    {[BaseBody EXCEPT !.score = x] : x \in {Undefined, Null, Str("10")}}

CorrectBodies ==
    {[BaseBody EXCEPT !.correctAnswers = x] : x \in {Undefined, Null, Str("5")}}

\* Numbers that are not integers: score 10.5, correctAnswers 2.5.
FractionBodies ==
    {[BaseBody EXCEPT !.score = NumHalf(10), !.correctAnswers = NumHalf(2)]}

\* The base body with any of the three unvalidated fields left out.
PartialBodies ==
    {[BaseBody EXCEPT !.totalQuestions = q, !.timeTaken = t, !.answers = a] :
        q \in {Num(10), Undefined}, t \in {Num(60), Undefined},
        a \in {Str("[1,2]"), Undefined}}

Bodies ==
    NameBodies \cup ScoreBodies \cup CorrectBodies \cup FractionBodies \cup PartialBodies

----------------------------------------------------------------------------
(* POST /api/submit-quiz: validation *)

\* The length check off by one: playerName.length >= 20.
NameTooLongInclusive(name) == name.t = "string" /\ Len(name.s) >= MaxNameLen

\* playerName.length > 20; the length of a value that is no string is
\* undefined, and undefined > 20 is false.
NameTooLong(name) == name.t = "string" /\ Len(name.s) > MaxNameLen

InvalidFormat(body) ==
    \/ Falsy(body.playerName)
    \/ TypeOf(body.score) # "number"
    \/ TypeOf(body.correctAnswers) # "number"

Validate(body) ==
    IF InvalidFormat(body) THEN "invalid-format"
    ELSE IF NameTooLong(body.playerName) THEN "name-too-long"
    ELSE "ok"

----------------------------------------------------------------------------
(* The quiz_results table *)

\* JSON.stringify(answers): undefined stays undefined, anything else is text.
JsonStringify(x) == IF x.t = "undefined" THEN Undefined ELSE x

\* A bound parameter: undefined is left unbound, which SQLite reads as NULL.
Bind(x) == IF x.t = "undefined" THEN Null ELSE x

IsNull(x) == x.t = "null"

\* The values of the INSERT, before id and completion_time are assigned.
InsertValues(body) ==
    [player_name |-> Bind(body.playerName),
     score |-> Bind(body.score),
     correct_answers |-> Bind(body.correctAnswers),
     total_questions |-> Bind(body.totalQuestions),
     time_taken |-> Bind(body.timeTaken),
     answers |-> Bind(JsonStringify(body.answers)),
     ip_address |-> Str("ip")]

\* The NOT NULL constraints of CREATE TABLE.
NotNullOk(v) ==
    /\ ~IsNull(v.player_name)
    /\ ~IsNull(v.score)
    /\ ~IsNull(v.correct_answers)
    /\ ~IsNull(v.total_questions)
    /\ ~IsNull(v.time_taken)
    /\ ~IsNull(v.answers)

RECURSIVE MaxId(_)
MaxId(rows) ==
    IF rows = <<>> THEN 0
    ELSE LET m == MaxId(Tail(rows)) IN IF Head(rows).id > m THEN Head(rows).id ELSE m

\* The largest id so far is given again.
NextIdReused(rows) == IF rows = <<>> THEN 1 ELSE MaxId(rows)

\* INTEGER PRIMARY KEY AUTOINCREMENT: one more than the largest id so far
\* (no row is ever deleted).
NextId(rows) == MaxId(rows) + 1

NewRow(rows, body, now) ==
    LET v == InsertValues(body) IN
    [id |-> NextId(rows),
     player_name |-> v.player_name,
     score |-> v.score,
     correct_answers |-> v.correct_answers,
     total_questions |-> v.total_questions,
     time_taken |-> v.time_taken,
     answers |-> v.answers,
     completion_time |-> now,
     ip_address |-> v.ip_address]

----------------------------------------------------------------------------
(* rankSQL *)

\* SELECT completion_time FROM quiz_results WHERE id = ?
\* (the empty set when no row has that id: the comparison is then NULL).
CompletionTimeOf(rows, id) ==
    {rows[i].completion_time : i \in {j \in DOMAIN rows : rows[j].id = id}}

\* The tie-break with <= : a row counts against itself.
RankWhereInclusive(row, score, sub) ==
    \/ NumKey(row.score) > NumKey(score)
    \/ /\ NumKey(row.score) = NumKey(score)
       /\ \E ct \in sub : row.completion_time <= ct

\* The tie-break reversed: the later completion wins.
RankWhereLater(row, score, sub) ==
    \/ NumKey(row.score) > NumKey(score)
    \/ /\ NumKey(row.score) = NumKey(score)
       /\ \E ct \in sub : row.completion_time > ct

\* WHERE score > ? OR (score = ? AND completion_time < (subquery))
RankWhere(row, score, sub) ==
    \/ NumKey(row.score) > NumKey(score)
    \/ /\ NumKey(row.score) = NumKey(score)
       /\ \E ct \in sub : row.completion_time < ct

\* SELECT COUNT(*) + 1 as rank FROM quiz_results WHERE ...
RankSQL(rows, score, id) ==
    Cardinality({i \in DOMAIN rows :
                    RankWhere(rows[i], score, CompletionTimeOf(rows, id))}) + 1

----------------------------------------------------------------------------
(* leaderboardSQL *)

\* ORDER BY score DESC, completion_time ASC: a may come before b.
OrderBy(a, b) ==
    \/ NumKey(a.score) > NumKey(b.score)
    \/ NumKey(a.score) = NumKey(b.score) /\ a.completion_time <= b.completion_time

\* The orders the sort may produce: rows the ORDER BY does not tell apart
\* come out in an order SQL leaves open.
Orderings(rows) ==
    {p \in Permutations(DOMAIN rows) :
        \A i, j \in DOMAIN rows : i < j => OrderBy(rows[p[i]], rows[p[j]])}

\* The LIMIT clause dropped.
Unlimited(n, total) == total

\* LIMIT n: a negative n is no limit.
Limited(n, total) == IF n < 0 \/ n > total THEN total ELSE n

\* The result rows under ordering p: the selected columns and
\* ROW_NUMBER() OVER (ORDER BY score DESC, completion_time ASC).
LeaderboardSQL(rows, limit, p) ==
    [k \in 1..Limited(limit, Len(rows)) |->
        [player_name |-> rows[p[k]].player_name,
         score |-> rows[p[k]].score,
         correct_answers |-> rows[p[k]].correct_answers,
         total_questions |-> rows[p[k]].total_questions,
         time_taken |-> rows[p[k]].time_taken,
         completion_time |-> rows[p[k]].completion_time,
         rank |-> k]]

\* req.query.limit: absent, a decimal integer, or text without digits.
LimitQueries ==
    {[kind |-> "absent"], [kind |-> "text"]}
    \cup {[kind |-> "int", n |-> k] : k \in -1..MaxLimit}

NaN == [nan |-> TRUE]

\* parseInt(req.query.limit)
ParseInt(q) == IF q.kind = "int" THEN [nan |-> FALSE, n |-> q.n] ELSE NaN

\* parseInt(req.query.limit) || 50
EffectiveLimit(q) ==
    LET x == ParseInt(q) IN
    IF x.nan \/ x.n = 0 THEN DefaultLimit ELSE x.n

----------------------------------------------------------------------------
(* statsSQL *)

RECURSIVE SumKeys(_)
SumKeys(rows) ==
    IF rows = <<>> THEN 0 ELSE NumKey(Head(rows).score) + SumKeys(Tail(rows))

\* MAX(score), MIN(score): NULL over no rows.
MaxScore(rows) ==
    IF rows = <<>> THEN Null
    ELSE LET i == CHOOSE i \in DOMAIN rows :
                    \A j \in DOMAIN rows : NumKey(rows[i].score) >= NumKey(rows[j].score)
         IN rows[i].score

MinScore(rows) ==
    IF rows = <<>> THEN Null
    ELSE LET i == CHOOSE i \in DOMAIN rows :
                    \A j \in DOMAIN rows : NumKey(rows[i].score) <= NumKey(rows[j].score)
         IN rows[i].score

\* AVG(score): NULL over no rows, else the quotient num / den.
AvgScore(rows) ==
    IF rows = <<>> THEN Null
    ELSE [t |-> "ratio", num |-> SumKeys(rows), den |-> 2 * Len(rows)]

\* The || 0 dropped.
OrNothing(x) == x

\* x || 0
OrZero(x) ==
    IF x.t = "ratio" THEN (IF x.num = 0 THEN Num(0) ELSE x)
    ELSE IF Falsy(x) THEN Num(0) ELSE x

StatsSQL(rows) ==
    [totalParticipants |-> Num(Len(rows)),
     averageScore |-> AvgScore(rows),
     highestScore |-> MaxScore(rows),
     lowestScore |-> MinScore(rows)]

StatsJson(row) ==
    [totalParticipants |-> OrZero(row.totalParticipants),
     averageScore |-> OrZero(row.averageScore),
     highestScore |-> OrZero(row.highestScore),
     lowestScore |-> OrZero(row.lowestScore)]

----------------------------------------------------------------------------
(* The state machine *)

NoBody == [playerName |-> Undefined, score |-> Undefined, correctAnswers |-> Undefined,
           totalQuestions |-> Undefined, timeTaken |-> Undefined, answers |-> Undefined]

\* A submission whose statements are all done.
Finished == [pc |-> "done", body |-> NoBody, lastID |-> 0, afterInsert |-> 0]

NoResponse == [route |-> "none"]

\* A leaderboard query of updateLeaderboard: what called updateLeaderboard
\* (the submission, by the id of its row, or the connection, by its
\* socket), and the number of rows the table held when the statement ran
\* (-1 while it has not run).
Query(by) == [by |-> by, at |-> -1]

\* Nothing received yet.
NoUpdate == [received |-> FALSE, at |-> -1, rows |-> <<>>]

\* The client of a socket connected when the table held n rows.
NewClient(n) == [since |-> n, last |-> NoUpdate]

\* The connected sockets.
Connected == DOMAIN sockets

Init ==
    /\ store = <<>>
    /\ clock = 0
    /\ reqs = <<>>
    /\ lbPending = {}
    /\ sockets = <<>>
    /\ connections = 0
    /\ emitted = <<>>
    /\ logged = <<>>
    /\ resp = NoResponse

\* A second passes.
Tick ==
    /\ logged' = <<>>
    /\ clock < MaxClock
    /\ clock' = clock + 1
    /\ emitted' = <<>>
    /\ resp' = NoResponse
    /\ UNCHANGED <<store, reqs, lbPending, sockets, connections>>

\* app.post('/api/submit-quiz'): validation; a valid body issues the INSERT.
SubmitQuiz(body) ==
    /\ logged' = <<>>
    /\ emitted' = <<>>
    /\ IF Validate(body) # "ok"
       THEN /\ resp' = [route |-> "submit", status |-> 400, error |-> Validate(body),
                        body |-> body]
            /\ UNCHANGED reqs
       ELSE /\ reqs' = Append(reqs, [pc |-> "insert", body |-> body, lastID |-> 0,
                                     afterInsert |-> 0])
            /\ resp' = NoResponse
    /\ UNCHANGED <<store, clock, lbPending, sockets, connections>>

\* The INSERT's callback calls updateLeaderboard before the rank query.
InsertDoneBroadcasts(r) ==
    /\ logged' = IF NotNullOk(InsertValues(reqs[r].body)) THEN <<>> ELSE <<"save-failed">>
    /\ r \in DOMAIN reqs
    /\ reqs[r].pc = "insert"
    /\ emitted' = <<>>
    /\ IF NotNullOk(InsertValues(reqs[r].body))
       THEN /\ store' = Append(store, NewRow(store, reqs[r].body, clock))
            /\ reqs' = [reqs EXCEPT ![r].pc = "rank",
                                    ![r].lastID = NextId(store),
                                    ![r].afterInsert = Len(store) + 1]
            /\ lbPending' = lbPending \cup {Query(<<"submit", NextId(store)>>)}
            /\ resp' = NoResponse
       ELSE /\ resp' = [route |-> "submit", status |-> 500, error |-> "save-failed",
                        cause |-> "constraint", body |-> reqs[r].body]
            /\ reqs' = [reqs EXCEPT ![r] = Finished]
            /\ UNCHANGED <<store, lbPending>>
    /\ UNCHANGED <<clock, sockets, connections>>

\* The INSERT of request r completes and its callback runs: on an error the
\* request is answered 500; otherwise the rank query is issued.
InsertDone(r) ==
    /\ logged' = IF NotNullOk(InsertValues(reqs[r].body)) THEN <<>> ELSE <<"save-failed">>
    /\ r \in DOMAIN reqs
    /\ reqs[r].pc = "insert"
    /\ emitted' = <<>>
    /\ IF NotNullOk(InsertValues(reqs[r].body))
       THEN /\ store' = Append(store, NewRow(store, reqs[r].body, clock))
            /\ reqs' = [reqs EXCEPT ![r].pc = "rank",
                                    ![r].lastID = NextId(store),
                                    ![r].afterInsert = Len(store) + 1]
            /\ resp' = NoResponse
       ELSE /\ resp' = [route |-> "submit", status |-> 500, error |-> "save-failed",
                        cause |-> "constraint", body |-> reqs[r].body]
            /\ reqs' = [reqs EXCEPT ![r] = Finished]
            /\ UNCHANGED store
    /\ UNCHANGED <<clock, lbPending, sockets, connections>>

\* The INSERT of request r fails in the storage layer.
InsertFault(r) ==
    /\ logged' = <<"save-failed">>
    /\ r \in DOMAIN reqs
    /\ reqs[r].pc = "insert"
    /\ emitted' = <<>>
    /\ resp' = [route |-> "submit", status |-> 500, error |-> "save-failed",
                cause |-> "fault", body |-> reqs[r].body]
    /\ reqs' = [reqs EXCEPT ![r] = Finished]
    /\ UNCHANGED <<store, clock, lbPending, sockets, connections>>

\* 'live-score-update' goes to every socket that ever connected.
RankDoneEveryone(r) ==
    /\ logged' = <<>>
    /\ r \in DOMAIN reqs
    /\ reqs[r].pc = "rank"
    /\ LET rank == RankSQL(store, reqs[r].body.score, reqs[r].lastID) IN
        /\ emitted' = <<[event |-> "live-score-update",
                         playerName |-> reqs[r].body.playerName,
                         currentScore |-> reqs[r].body.score,
                         rank |-> rank,
                         to |-> 1..connections]>>
        /\ resp' = [route |-> "submit", status |-> 200, success |-> TRUE, rank |-> rank,
                    body |-> reqs[r].body, id |-> reqs[r].lastID,
                    afterInsert |-> reqs[r].afterInsert]
    /\ lbPending' = lbPending \cup {Query(<<"submit", reqs[r].lastID>>)}
    /\ reqs' = [reqs EXCEPT ![r] = Finished]
    /\ UNCHANGED <<store, clock, sockets, connections>>

\* The rank query of request r completes and its callback runs: it emits
\* 'live-score-update' to every connected socket, calls updateLeaderboard
\* and answers the request.
RankDone(r) ==
    /\ logged' = <<>>
    /\ r \in DOMAIN reqs
    /\ reqs[r].pc = "rank"
    /\ LET rank == RankSQL(store, reqs[r].body.score, reqs[r].lastID) IN
        /\ emitted' = <<[event |-> "live-score-update",
                         playerName |-> reqs[r].body.playerName,
                         currentScore |-> reqs[r].body.score,
                         rank |-> rank,
                         to |-> Connected]>>
        /\ resp' = [route |-> "submit", status |-> 200, success |-> TRUE, rank |-> rank,
                    body |-> reqs[r].body, id |-> reqs[r].lastID,
                    afterInsert |-> reqs[r].afterInsert]
    /\ lbPending' = lbPending \cup {Query(<<"submit", reqs[r].lastID>>)}
    /\ reqs' = [reqs EXCEPT ![r] = Finished]
    /\ UNCHANGED <<store, clock, sockets, connections>>

\* The failed rank query still calls updateLeaderboard.
RankFaultBroadcasts(r) ==
    /\ logged' = <<"rank-failed">>
    /\ r \in DOMAIN reqs
    /\ reqs[r].pc = "rank"
    /\ emitted' = <<>>
    /\ resp' = [route |-> "submit", status |-> 500, error |-> "rank-failed",
                cause |-> "fault", body |-> reqs[r].body]
    /\ lbPending' = lbPending \cup {Query(<<"submit", reqs[r].lastID>>)}
    /\ reqs' = [reqs EXCEPT ![r] = Finished]
    /\ UNCHANGED <<store, clock, sockets, connections>>

\* The rank query of request r fails in the storage layer.
RankFault(r) ==
    /\ logged' = <<"rank-failed">>
    /\ r \in DOMAIN reqs
    /\ reqs[r].pc = "rank"
    /\ emitted' = <<>>
    /\ resp' = [route |-> "submit", status |-> 500, error |-> "rank-failed",
                cause |-> "fault", body |-> reqs[r].body]
    /\ reqs' = [reqs EXCEPT ![r] = Finished]
    /\ UNCHANGED <<store, clock, lbPending, sockets, connections>>

\* app.get('/api/leaderboard')
GetLeaderboard(q) ==
    /\ logged' = <<>>
    /\ \E p \in Orderings(store) :
        resp' = [route |-> "leaderboard", status |-> 200, query |-> q,
                 rows |-> LeaderboardSQL(store, EffectiveLimit(q), p)]
    /\ emitted' = <<>>
    /\ UNCHANGED <<store, clock, reqs, lbPending, sockets, connections>>

\* app.get('/api/stats')
GetStats ==
    /\ logged' = <<>>
    /\ resp' = [route |-> "stats", status |-> 200, json |-> StatsJson(StatsSQL(store))]
    /\ emitted' = <<>>
    /\ UNCHANGED <<store, clock, reqs, lbPending, sockets, connections>>

\* app.get('/api/health')
GetHealth ==
    /\ logged' = <<>>
    /\ resp' = [route |-> "health", status |-> 200,
                json |-> [status |-> "healthy", timestamp |-> clock]]
    /\ emitted' = <<>>
    /\ UNCHANGED <<store, clock, reqs, lbPending, sockets, connections>>

\* io.on('connection'): the socket is connected and updateLeaderboard is
\* called.
Connect ==
    /\ logged' = <<>>
    /\ connections + Len(reqs) < MaxLive
    /\ connections' = connections + 1
    /\ sockets' = [s \in Connected \cup {connections + 1} |->
                      IF s \in Connected THEN sockets[s] ELSE NewClient(Len(store))]
    /\ lbPending' = lbPending \cup {Query(<<"connect", connections + 1>>)}
    /\ emitted' = <<>>
    /\ resp' = NoResponse
    /\ UNCHANGED <<store, clock, reqs>>

\* socket.on('disconnect'): logged only; the socket receives nothing more.
Disconnect(s) ==
    /\ logged' = <<>>
    /\ s \in Connected
    /\ sockets' = [t \in Connected \ {s} |-> sockets[t]]
    /\ emitted' = <<>>
    /\ resp' = NoResponse
    /\ UNCHANGED <<store, clock, reqs, lbPending, connections>>

\* The names announced with 'join-quiz': nothing validates them.
JoinNames == {Str("Ann"), Str(Name21)}

\* 'player-joined' goes to every connected socket, the sender included.
JoinQuizEcho(s, name) ==
    /\ logged' = <<>>
    /\ s \in Connected
    /\ emitted' = <<[event |-> "player-joined", playerName |-> name,
                     timestamp |-> clock, from |-> s,
                     data |-> [playerName |-> name], to |-> Connected]>>
    /\ resp' = NoResponse
    /\ UNCHANGED <<store, clock, reqs, lbPending, sockets, connections>>

\* socket.on('join-quiz'): 'player-joined' goes to every connected socket
\* but the sender (socket.broadcast.emit); the event is kept with the
\* socket it came from and the data that socket sent.
JoinQuiz(s, name) ==
    /\ logged' = <<>>
    /\ s \in Connected
    /\ emitted' = <<[event |-> "player-joined", playerName |-> name,
                     timestamp |-> clock, from |-> s,
                     data |-> [playerName |-> name], to |-> Connected \ {s}]>>
    /\ resp' = NoResponse
    /\ UNCHANGED <<store, clock, reqs, lbPending, sockets, connections>>

\* The statement reads an empty table whatever the table holds.
LeaderboardQueryStale(q) ==
    /\ logged' = <<>>
    /\ q \in lbPending
    /\ q.at = -1
    /\ lbPending' = (lbPending \ {q}) \cup {[q EXCEPT !.at = 0]}
    /\ emitted' = <<>>
    /\ resp' = NoResponse
    /\ UNCHANGED <<store, clock, reqs, sockets, connections>>

\* The statement of leaderboard query q runs: it reads the table.
LeaderboardQuery(q) ==
    /\ logged' = <<>>
    /\ q \in lbPending
    /\ q.at = -1
    /\ lbPending' = (lbPending \ {q}) \cup {[q EXCEPT !.at = Len(store)]}
    /\ emitted' = <<>>
    /\ resp' = NoResponse
    /\ UNCHANGED <<store, clock, reqs, sockets, connections>>

\* What a client holds after an update from a table of at rows.
Receive(client, at, rows) ==
    [client EXCEPT !.last = [received |-> TRUE, at |-> at, rows |-> rows]]

\* The push of a connection goes to the new socket alone.
LeaderboardBroadcastNewOnly(q) ==
    /\ logged' = <<>>
    /\ q \in lbPending
    /\ q.at >= 0
    /\ lbPending' = lbPending \ {q}
    /\ \E p \in Orderings(SubSeq(store, 1, q.at)) :
        LET rows == LeaderboardSQL(SubSeq(store, 1, q.at), BroadcastLimit, p)
            to == IF q.by[1] = "connect" THEN Connected \cap {q.by[2]} ELSE Connected
        IN
        /\ emitted' = <<[event |-> "leaderboard-update", rows |-> rows,
                         by |-> q.by, at |-> q.at, to |-> to]>>
        /\ sockets' = [s \in Connected |->
                          IF s \in to THEN Receive(sockets[s], q.at, rows) ELSE sockets[s]]
    /\ resp' = NoResponse
    /\ UNCHANGED <<store, clock, reqs, connections>>

\* The callback emits the first row only.
LeaderboardBroadcastOne(q) ==
    /\ logged' = <<>>
    /\ q \in lbPending
    /\ q.at >= 0
    /\ lbPending' = lbPending \ {q}
    /\ \E p \in Orderings(SubSeq(store, 1, q.at)) :
        LET rows == LeaderboardSQL(SubSeq(store, 1, q.at), 1, p) IN
        /\ emitted' = <<[event |-> "leaderboard-update", rows |-> rows,
                         by |-> q.by, at |-> q.at, to |-> Connected]>>
        /\ sockets' = [s \in Connected |-> Receive(sockets[s], q.at, rows)]
    /\ resp' = NoResponse
    /\ UNCHANGED <<store, clock, reqs, connections>>

\* The callback of leaderboard query q runs: the rows the statement read
\* are emitted as 'leaderboard-update' to every connected socket.
LeaderboardBroadcast(q) ==
    /\ logged' = <<>>
    /\ q \in lbPending
    /\ q.at >= 0
    /\ lbPending' = lbPending \ {q}
    /\ \E p \in Orderings(SubSeq(store, 1, q.at)) :
        LET rows == LeaderboardSQL(SubSeq(store, 1, q.at), BroadcastLimit, p) IN
        /\ emitted' = <<[event |-> "leaderboard-update", rows |-> rows,
                         by |-> q.by, at |-> q.at, to |-> Connected]>>
        /\ sockets' = [s \in Connected |-> Receive(sockets[s], q.at, rows)]
    /\ resp' = NoResponse
    /\ UNCHANGED <<store, clock, reqs, connections>>

\* The failure of leaderboard query q is answered to a client.
LeaderboardFaultSurfaced(q) ==
    /\ logged' = <<"leaderboard-failed">>
    /\ q \in lbPending
    /\ q.at = -1
    /\ lbPending' = lbPending \ {q}
    /\ emitted' = <<>>
    /\ resp' = [route |-> "submit", status |-> 500, error |-> "leaderboard-failed",
                cause |-> "fault", body |-> NoBody]
    /\ UNCHANGED <<store, clock, reqs, sockets, connections>>

\* Leaderboard query q fails: the error is logged, nothing is emitted.
LeaderboardFault(q) ==
    /\ logged' = <<"leaderboard-failed">>
    /\ q \in lbPending
    /\ q.at = -1
    /\ lbPending' = lbPending \ {q}
    /\ emitted' = <<>>
    /\ resp' = NoResponse
    /\ UNCHANGED <<store, clock, reqs, sockets, connections>>

\* Bodies of the concurrent clients: two scores, a name that is too long
\* and a body without totalQuestions.
RaceBodies ==
    {BaseBody, [BaseBody EXCEPT !.playerName = Str(Name20), !.score = Num(20)],
     [BaseBody EXCEPT !.playerName = Str(Name21)],
     [BaseBody EXCEPT !.totalQuestions = Undefined]}

\* No statement of any submission or broadcast is outstanding.
Idle == lbPending = {} /\ \A r \in DOMAIN reqs : reqs[r].pc = "done"

\* The steps of a submission after its admission, and of a broadcast.
Pipeline ==
    \/ \E r \in DOMAIN reqs : InsertDone(r)
    \/ \E r \in DOMAIN reqs : InsertFault(r)
    \/ \E r \in DOMAIN reqs : RankDone(r)
    \/ \E r \in DOMAIN reqs : RankFault(r)
    \/ \E q \in lbPending : LeaderboardQuery(q)
    \/ \E q \in lbPending : LeaderboardBroadcast(q)
    \/ \E q \in lbPending : LeaderboardFault(q)

Serve ==
    \/ Tick
    \/ Pipeline
    \/ \E q \in LimitQueries : GetLeaderboard(q)
    \/ GetStats

\* Clients submit concurrently.
Submit == \E body \in RaceBodies : Len(reqs) < MaxRequests /\ SubmitQuiz(body)

Next == Submit \/ Serve

Spec == Init /\ [][Next]_vars

\* Clients submit one at a time, when the server is idle.
SubmitSerial == \E body \in Bodies : Idle /\ Len(reqs) < MaxSerial /\ SubmitQuiz(body)

NextSerial == SubmitSerial \/ Serve

SpecSerial == Init /\ [][NextSerial]_vars

\* Bodies of the clients of the live channel: a result and a name that is
\* too long.
LiveBodies ==
    {BaseBody,
     [BaseBody EXCEPT !.playerName = Str(Name21)]}

SubmitLive ==
    \E body \in LiveBodies : connections + Len(reqs) < MaxLive /\ SubmitQuiz(body)

\* Sockets connect, announce players and disconnect while clients submit
\* and read.
NextLive ==
    \/ SubmitLive
    \/ Pipeline
    \/ Connect
    \/ \E s \in Connected : Disconnect(s)
    \/ \E s \in Connected, name \in JoinNames : JoinQuiz(s, name)
    \/ GetLeaderboard([kind |-> "absent"])
    \/ GetStats
    \/ GetHealth

SpecLive == Init /\ [][NextLive]_vars

----------------------------------------------------------------------------
(* Properties *)

Answered(status) == resp.route = "submit" /\ resp.status = status

\* The row of the table with the given id.
RowOf(rows, id) == rows[CHOOSE i \in DOMAIN rows : rows[i].id = id]

\* rankOf of the i-th row of the table.
RankOf(rows, i) == RankSQL(rows, rows[i].score, rows[i].id)

\* Result a beats result b: a higher score, or the same score earlier.
Beats(a, b) ==
    \/ NumKey(a.score) > NumKey(b.score)
    \/ NumKey(a.score) = NumKey(b.score) /\ a.completion_time < b.completion_time

\* C1: the rank answered to a submission is the rank of its result in the
\* table as it was right after the submission's own insert.
RankReflectsOwnInsert ==
    Answered(200) =>
        resp.rank = RankSQL(SubSeq(store, 1, resp.afterInsert), resp.body.score, resp.id)

\* C2: the rank answered to a successful submission is at least 1 and at
\* most the number of results in the table when the rank query runs, and it
\* is 1 when no result in the table beats the new one.
RankWithinBounds ==
    Answered(200) =>
        /\ resp.rank >= 1
        /\ resp.rank <= Len(store)
        /\ (\A i \in DOMAIN store : ~Beats(store[i], RowOf(store, resp.id)))
              => resp.rank = 1

\* A submission is answered with the last place among several results.
RankWithinBoundsWitness ==
    /\ Answered(200)
    /\ Len(store) >= 2
    /\ resp.rank = Len(store)

\* The scenario: A (score 10), then B (score 20), then C (score 20, later
\* than B).
Scenario ==
    /\ Len(store) = 3
    /\ store[1].score = Num(10)
    /\ store[2].score = Num(20)
    /\ store[3].score = Num(20)
    /\ store[2].completion_time < store[3].completion_time

\* C3: on one table, a result with a higher score has a rank no larger than
\* a result with a lower score, and of two results with the same score the
\* one inserted first has a rank no larger than the other; in the scenario
\* B has rank 1, C rank 2 and A rank 3, and the top 3 are B, C, A.
RankMonotone ==
    /\ \A a, b \in DOMAIN store :
        /\ NumKey(store[a].score) > NumKey(store[b].score)
              => RankOf(store, a) <= RankOf(store, b)
        /\ (NumKey(store[a].score) = NumKey(store[b].score) /\ store[a].id < store[b].id)
              => RankOf(store, a) <= RankOf(store, b)
    /\ Scenario =>
        /\ RankOf(store, 2) = 1
        /\ RankOf(store, 3) = 2
        /\ RankOf(store, 1) = 3
        /\ (resp.route = "leaderboard" /\ Len(resp.rows) = 3) =>
              \A k \in 1..3 :
                  /\ resp.rows[k].score = store[<<2, 3, 1>>[k]].score
                  /\ resp.rows[k].completion_time = store[<<2, 3, 1>>[k]].completion_time
                  /\ resp.rows[k].rank = k

\* The scenario's table, and its top 3 just fetched.
RankMonotoneWitness ==
    /\ Scenario
    /\ resp.route = "leaderboard"
    /\ Len(resp.rows) = 3

\* C4: every row of a leaderboard response carries the rank the rank query
\* computes for that result on the same table.
LeaderboardRankIsRankOf ==
    resp.route = "leaderboard" =>
        \A k \in DOMAIN resp.rows :
            \E i \in DOMAIN store :
                /\ store[i].player_name = resp.rows[k].player_name
                /\ store[i].score = resp.rows[k].score
                /\ store[i].completion_time = resp.rows[k].completion_time
                /\ resp.rows[k].rank = RankOf(store, i)

\* C5: a leaderboard response to limit n >= 1 is ordered by score descending,
\* then completion_time ascending, its ranks are 1..k in that order, and k
\* exceeds neither n nor the number of results.
LeaderboardOrdered ==
    (resp.route = "leaderboard" /\ resp.query.kind = "int" /\ resp.query.n >= 1) =>
        /\ \A j, k \in DOMAIN resp.rows :
              j < k =>
                \/ NumKey(resp.rows[j].score) > NumKey(resp.rows[k].score)
                \/ /\ NumKey(resp.rows[j].score) = NumKey(resp.rows[k].score)
                   /\ resp.rows[j].completion_time <= resp.rows[k].completion_time
        /\ \A k \in DOMAIN resp.rows : resp.rows[k].rank = k
        /\ DOMAIN resp.rows = 1..Len(resp.rows)
        /\ Len(resp.rows) <= resp.query.n
        /\ Len(resp.rows) <= Len(store)

\* A limit below the number of results cuts the leaderboard short.
LeaderboardOrderedWitness ==
    /\ resp.route = "leaderboard"
    /\ resp.query.kind = "int"
    /\ resp.query.n >= 1
    /\ Len(resp.rows) = resp.query.n
    /\ Len(store) > resp.query.n
    /\ \E i, j \in DOMAIN store : store[i].score # store[j].score

\* C6: a leaderboard request with limit 0 is answered with the empty list.
LimitZeroIsEmpty ==
    (resp.route = "leaderboard" /\ resp.query = [kind |-> "int", n |-> 0]) =>
        resp.rows = <<>>

\* playerName is missing, empty or longer than 20 characters.
BadName(name) ==
    \/ name.t = "undefined"
    \/ name.t = "string" /\ (name.s = "" \/ Len(name.s) > 20)

\* The step answers a submission with a validation error.
Rejects == resp'.route = "submit" /\ resp'.status = 400

\* C7: a submission whose playerName is missing, empty or longer than 20
\* characters is answered 400 and is never admitted: no insert is issued,
\* the table is unchanged and nothing is emitted; a name of exactly 20
\* characters is not rejected for its length.
BadNameRejected ==
    [][/\ \A r \in DOMAIN reqs' \ DOMAIN reqs : ~BadName(reqs'[r].body.playerName)
       /\ (resp'.route = "submit" /\ BadName(resp'.body.playerName)) => Rejects
       /\ Rejects =>
            /\ store' = store
            /\ reqs' = reqs
            /\ lbPending' = lbPending
            /\ emitted' = <<>>
       /\ (resp'.route = "submit" /\ resp'.body.playerName = Str(Name20))
            => ~(Rejects /\ resp'.error = "name-too-long")]_vars

\* A name of 21 characters is rejected while a result under a name of 20
\* characters is in the table.
BadNameRejectedWitness ==
    /\ Answered(400)
    /\ resp.body.playerName = Str(Name21)
    /\ resp.error = "name-too-long"
    /\ \E i \in DOMAIN store : store[i].player_name = Str(Name20)

\* A number without a fractional part.
IsInteger(x) == x.t = "number" /\ ~x.half

\* C8: a submission whose score or correctAnswers is not an integer is
\* rejected: it is never admitted and never reaches the table.
NonIntegerRejected ==
    /\ \A r \in DOMAIN reqs :
          reqs[r].pc # "done" =>
              IsInteger(reqs[r].body.score) /\ IsInteger(reqs[r].body.correctAnswers)
    /\ \A i \in DOMAIN store :
          IsInteger(store[i].score) /\ IsInteger(store[i].correct_answers)

\* C9: the insert of a submission that passed validation fails only by a
\* fault of the storage layer.
ValidatedInsertSucceeds ==
    (Answered(500) /\ resp.error = "save-failed") => resp.cause = "fault"

----------------------------------------------------------------------------
(* Properties of the live channel *)

\* The last step emitted the named event (and nothing else).
Emitted(event) == Len(emitted) = 1 /\ emitted[1].event = event

\* The step emits the named event (and nothing else).
Emits(event) == Len(emitted') = 1 /\ emitted'[1].event = event

\* The leaderboards of 20 rows that the given table may yield.
TopOf(rows) == {LeaderboardSQL(rows, BroadcastLimit, p) : p \in Orderings(rows)}

\* A leaderboard query called by the given caller is outstanding.
Outstanding(pending, by) == \E q \in pending : q.by = by

Succeeds == resp'.route = "submit" /\ resp'.status = 200

\* The step answers a submission with the given failure.
Fails(status, error) ==
    resp'.route = "submit" /\ resp'.status = status /\ resp'.error = error

\* The step ends the given stage of request r.
Leaves(r, stage) == reqs[r].pc = stage /\ reqs'[r].pc # stage

\* C12: the step that answers a submission with success emits exactly one
\* 'live-score-update', to every connected socket, with the submission's
\* playerName and score and the rank of the response; no other step emits
\* one, so none goes out for a submission that fails validation, insert or
\* rank query, and a submission is answered once.
LiveScoreOncePerSuccess ==
    [][/\ Succeeds <=> Emits("live-score-update")
       /\ (\E i \in DOMAIN emitted' : emitted'[i].event = "live-score-update")
              => Succeeds
       /\ Succeeds =>
            /\ emitted'[1].to = Connected
            /\ emitted'[1].playerName = resp'.body.playerName
            /\ emitted'[1].currentScore = resp'.body.score
            /\ emitted'[1].rank = resp'.rank
            /\ \E r \in DOMAIN reqs :
                /\ Leaves(r, "rank")
                /\ reqs[r].lastID = resp'.id
                /\ reqs'[r] = Finished
       /\ (resp'.route = "submit" /\ resp'.status # 200) => emitted' = <<>>]_vars

\* A success was announced to the sockets still connected after another
\* one had disconnected.
LiveScoreOncePerSuccessWitness ==
    /\ Answered(200)
    /\ Emitted("live-score-update")
    /\ emitted[1].to = Connected
    /\ Connected # {}
    /\ Cardinality(Connected) < connections

JoinReachesOthers ==
    [][(\E i \in DOMAIN emitted' : emitted'[i].event = "player-joined") =>
            /\ Len(emitted') = 1
            /\ emitted'[1].from \in Connected
            /\ emitted'[1].to = Connected \ {emitted'[1].from}
            /\ emitted'[1].playerName = emitted'[1].data.playerName
            /\ emitted'[1].playerName.t = "string"
            /\ UNCHANGED <<store, reqs, lbPending, sockets, connections>>]_vars

\* A player was announced to the other socket while the table held a
\* result.
JoinReachesOthersWitness ==
    /\ Emitted("player-joined")
    /\ Cardinality(emitted[1].to) = 1
    /\ emitted[1].from \notin emitted[1].to
    /\ store # <<>>

\* C15: a submission is validated, then inserted, then ranked; the step
\* that ends its rank query emits 'live-score-update', issues the
\* leaderboard query and answers, and that is the only step that issues a
\* leaderboard query for it; the 'leaderboard-update' of a submission is
\* emitted by a later step, from a query that was issued before, so the
\* sockets get 'live-score-update' first.
LiveBeforeLeaderboard ==
    [][/\ \A r \in DOMAIN reqs' \ DOMAIN reqs :
            /\ reqs'[r].pc = "insert"
            /\ Validate(reqs'[r].body) = "ok"
            /\ store' = store
       /\ \A r \in DOMAIN reqs :
            reqs'[r].pc # reqs[r].pc =>
                \/ reqs[r].pc = "insert" /\ reqs'[r].pc \in {"rank", "done"}
                \/ reqs[r].pc = "rank" /\ reqs'[r].pc = "done"
       /\ \A r \in DOMAIN reqs :
            (Leaves(r, "insert") /\ reqs'[r].pc = "rank") =>
                /\ Len(store') = Len(store) + 1
                /\ store'[Len(store')].id = reqs'[r].lastID
                /\ emitted' = <<>>
                /\ lbPending' = lbPending
                /\ resp' = NoResponse
       /\ Succeeds =>
            \E r \in DOMAIN reqs :
                /\ Leaves(r, "rank")
                /\ emitted'[1].event = "live-score-update"
                /\ Query(<<"submit", reqs[r].lastID>>) \in lbPending' \ lbPending
       /\ \A q \in lbPending' :
            (q.by[1] = "submit" /\ ~Outstanding(lbPending, q.by)) =>
                /\ q.at = -1
                /\ Emits("live-score-update")
                /\ Succeeds
                /\ resp'.id = q.by[2]
       /\ \A i \in DOMAIN emitted' :
            (emitted'[i].event = "leaderboard-update" /\ emitted'[i].by[1] = "submit") =>
                /\ Len(emitted') = 1
                /\ \E q \in lbPending : q.by = emitted'[i].by /\ q.at >= 0
                /\ emitted'[i].to = Connected]_vars

\* A success was just announced to a socket and answered while the
\* leaderboard query it triggered has yet to run.
LiveBeforeLeaderboardWitness ==
    /\ Answered(200)
    /\ Emitted("live-score-update")
    /\ emitted[1].to # {}
    /\ Query(<<"submit", resp.id>>) \in lbPending

\* C16: when the rank query of a submission fails the submission is
\* answered 500 'rank failed', its row stays in the table, and neither
\* 'live-score-update' is emitted nor a leaderboard query issued; when its
\* insert fails it is answered 500 'save failed', the table is unchanged,
\* no rank query runs, nothing is emitted and no leaderboard query issued.
FailuresShortCircuit ==
    [][/\ Fails(500, "rank-failed") =>
            \E r \in DOMAIN reqs :
                /\ Leaves(r, "rank")
                /\ reqs'[r] = Finished
                /\ store' = store
                /\ \E i \in DOMAIN store' : store'[i].id = reqs[r].lastID
                /\ emitted' = <<>>
                /\ lbPending' = lbPending
       /\ Fails(500, "save-failed") =>
            \E r \in DOMAIN reqs :
                /\ Leaves(r, "insert")
                /\ reqs'[r] = Finished
                /\ store' = store
                /\ emitted' = <<>>
                /\ lbPending' = lbPending
       /\ \A r \in DOMAIN reqs :
            (reqs[r].pc # "done" /\ reqs'[r].pc = "done" /\ ~Succeeds) =>
                \/ Fails(500, "rank-failed")
                \/ Fails(500, "save-failed")]_vars

\* The rank query of a submission failed while a socket was connected:
\* the row is in the table and no leaderboard query is outstanding.
FailuresShortCircuitWitness ==
    /\ Answered(500)
    /\ resp.error = "rank-failed"
    /\ store # <<>>
    /\ Connected # {}
    /\ lbPending = {}
    /\ emitted = <<>>

\* C17: a submission is answered {success, rank} in the step that issues
\* its leaderboard query, before that query runs; a leaderboard query that
\* fails is logged, answers nothing, emits nothing and changes neither the
\* table nor the submissions.
BroadcastFailureNotSurfaced ==
    [][/\ Succeeds =>
            /\ resp'.success
            /\ resp'.rank >= 1
            /\ Query(<<"submit", resp'.id>>) \in lbPending'
       /\ logged' = <<"leaderboard-failed">> =>
            /\ resp' = NoResponse
            /\ emitted' = <<>>
            /\ \E q \in lbPending : lbPending' = lbPending \ {q}
            /\ UNCHANGED <<store, reqs, sockets>>
       /\ \A q \in lbPending :
            (~Outstanding(lbPending', q.by) /\ emitted' = <<>>)
                => logged' = <<"leaderboard-failed">>]_vars

\* The leaderboard query of a submission failed (no socket ever
\* connected, so the query was a submission's): every submission has
\* been answered and its row is in the table.
BroadcastFailureNotSurfacedWitness ==
    /\ logged = <<"leaderboard-failed">>
    /\ connections = 0
    /\ store # <<>>
    /\ \A r \in DOMAIN reqs : reqs[r] = Finished
    /\ resp = NoResponse

\* C18: the ids of the table are distinct and increase in insertion order;
\* a step either leaves the table as it is or, being the insert of a
\* submission, appends one row with an id above all others; the steps of
\* leaderboard, stats and health requests, of connections, disconnections
\* and 'join-quiz', of the rank query and of the broadcast leave the table
\* as it is.
StoreAppendOnly ==
    [][/\ \A i, j \in DOMAIN store' : i < j => store'[i].id < store'[j].id
       /\ \/ store' = store
          \/ /\ Len(store') = Len(store) + 1
             /\ SubSeq(store', 1, Len(store)) = store
             /\ store'[Len(store')].id > MaxId(store)
             /\ \E r \in DOMAIN reqs : Leaves(r, "insert") /\ reqs'[r].pc = "rank"
       /\ resp'.route \in {"leaderboard", "stats", "health"} => store' = store
       /\ (Succeeds \/ Fails(500, "rank-failed")) => store' = store
       /\ connections' # connections => store' = store
       /\ sockets' # sockets => store' = store
       /\ lbPending' # lbPending => store' = store
       /\ emitted' # <<>> => store' = store]_vars

\* Two results are in the table, the second with the larger id, and a
\* socket has connected.
StoreAppendOnlyWitness ==
    /\ Len(store) = 2
    /\ store[1].id < store[2].id
    /\ connections >= 1

SnapshotsNeverRegress ==
    [][Emits("leaderboard-update") =>
          \A s \in Connected :
              sockets[s].last.received => emitted'[1].at >= sockets[s].last.at]_vars

====
